---- MODULE Spec2Model ----
(***************************************************************************)
(* Bookstore recommendations demo: the store-backed core operations of     *)
(* app/app.py (get_all_books, get_book_rating, get_book_embedding,         *)
(* get_book_recommendations, get_rating_analytics) over a PostgreSQL       *)
(* store with the pgvector cosine-distance operator.                       *)
(*                                                                         *)
(* Numbers.  Distances and similarities are fixed-point integers in units  *)
(* of 1/DistScale (the sample vectors are chosen so that every cosine is   *)
(* exact in these units).  An average rating is the exact fraction         *)
(* <<sum, count>> reduced to lowest terms; SQL NULL / Python None for an   *)
(* average is the empty tuple.  float(Decimal) is taken to be exact on     *)
(* these values.                                                           *)
(***************************************************************************)
EXTENDS Integers, Sequences, FiniteSets, TLC

VARIABLES
    books,      \* table books: id -> [title, embedding]
    ratings,    \* table ratings: sequence of [book_id, rating, age] rows
    txStatus,   \* the connection's transaction status: "ok" or "aborted"
    op,         \* "idle", or the operation that has just returned
    args,       \* the arguments of that operation
    rows,       \* the rows the store returned to it (cursor.fetchall())
    ret,        \* what it returned
    errors,     \* the st.error reports it emitted
    queries,    \* the cursor.execute calls it made
    failed,     \* whether one of its queries failed
    raised,     \* whether an exception left the operation
    pc,         \* main(): the line the run is at, "none" outside a run
    selected_book_id,   \* main(): the choice made in the selectbox
    book_embedding,     \* main(): what get_book_embedding returned
    shown,      \* main(): the messages the run has put on the page
    calls,      \* main(): the store operations the run has issued
    faulty,     \* main(): whether a query of the last call was one the store rejects
    at,         \* run_workload: "idle", "loop", "summary", "returned" or "raised"
    num_iterations,         \* run_workload: its parameters
    delay_between_queries,
    iteration,              \* run_workload: i of the for loop, the iterations done
    total_execution_time,   \* run_workload: its counters
    successful_queries,
    failed_queries,
    summary,    \* run_workload: the dict it returned
    outcomes    \* what the query of each iteration did: "ok", "missing" or "failed"

vars == <<books, ratings, txStatus, op, args, rows, ret, errors, queries, failed, raised,
          pc, selected_book_id, book_embedding, shown, calls, faulty,
          at, num_iterations, delay_between_queries, iteration, total_execution_time,
          successful_queries, failed_queries, summary, outcomes>>

store == <<books, ratings>>

session == <<pc, selected_book_id, book_embedding, shown, calls, faulty>>

workload == <<at, num_iterations, delay_between_queries, iteration, total_execution_time,
              successful_queries, failed_queries, summary, outcomes>>

----------------------------------------------------------------------------
(* Bounds of the model *)

NumBooks == 2          \* books in the store, ids 1..NumBooks
MaxRatings == 2        \* rows of the ratings table
MaxLimit == 2          \* largest limit passed to get_book_recommendations
DistScale == 5         \* distance units per 1.0

(* Program constants *)

MinRating == 1         \* seed.py: random.choices(range(1, 6), ...)
MaxRating == 5
DistanceThreshold == 2 \* ... < 2.0 in the recommendation query
DefaultLimit == 10     \* get_book_recommendations(..., limit=10, ...)
TrendWindowDays == 30  \* INTERVAL '30 days'
MinTopRatings == 3     \* HAVING COUNT(r.rating) >= 3
TopLimit == 10         \* LIMIT 10 of the leaderboard

----------------------------------------------------------------------------
(* Values *)

Null == <<>>           \* SQL NULL / Python None where the value is a tuple
NullDist == -1         \* SQL NULL where the value is a distance
NoId == 0              \* a falsy exclude_book_id: None (the default) or 0

Ids == 1..NumBooks
BookIds == DOMAIN books
MissingId == Cardinality(DOMAIN books) + 1     \* an id that references no book

Max(a, b) == IF a >= b THEN a ELSE b
Min(a, b) == IF a <= b THEN a ELSE b

RECURSIVE GCD(_, _)
GCD(a, b) == IF b = 0 THEN a ELSE GCD(b, a % b)

RECURSIVE SeqSum(_)
SeqSum(s) == IF s = <<>> THEN 0 ELSE Head(s) + SeqSum(Tail(s))

(* Sequences over the set S without repetition, of length n: the orders in
   which a store may return n of the rows S. *)
RECURSIVE Arrangements(_, _)
Arrangements(S, n) ==
    IF n = 0 THEN {<<>>}
    ELSE UNION {{<<x>> \o t : t \in Arrangements(S \ {x}, n - 1)} : x \in S}

----------------------------------------------------------------------------
(* The store: sample embeddings and the pgvector operator <=> *)

(* Sample embedding vectors, all with an integer norm. *)
SampleVectors == {<<1, 0>>, <<0, 1>>, <<-1, 0>>, <<3, 4>>}
Embeddings == SampleVectors \cup {Null}

Dot(u, v) == u[1] * v[1] + u[2] * v[2]
Norm(u) == CHOOSE n \in 0..(Dot(u, u)) : n * n = Dot(u, u)

(* u <=> v: cosine distance 1 - (u.v)/(|u||v|), NULL if an operand is. *)
CosineDistance(u, v) ==
    IF u = Null \/ v = Null THEN NullDist
    ELSE DistScale - ((DistScale * Dot(u, v)) \div (Norm(u) * Norm(v)))

(* (SELECT embedding FROM books WHERE id = %s): NULL when no row matches. *)
EmbeddingOf(id) == IF id \in DOMAIN books THEN books[id].embedding ELSE Null

(* Mutant: the comparison d <= t *)
SqlLessOrEqual(d, t) == d # NullDist /\ d <= t

(* SQL comparison d < t: unknown (not true) on NULL. *)
SqlLess(d, t) == d # NullDist /\ d < t

(* The ratings of one book, in table order. *)
RatingsOf(id) == SelectSeq(ratings, LAMBDA r : r.book_id = id)

RatingValues(rs) == [i \in DOMAIN rs |-> rs[i].rating]

(* AVG(rating): NULL over no rows, else the exact mean. *)
SqlAvg(vals) ==
    IF vals = <<>> THEN Null
    ELSE LET s == SeqSum(vals)
             n == Len(vals)
             g == GCD(s, n)
         IN <<s \div g, n \div g>>

(* COUNT(rating) *)
SqlCount(vals) == Len(vals)

(* Python truthiness of a fetched average: None and Decimal 0 are falsy. *)
Truthy(avg) == avg # Null /\ avg[1] # 0

----------------------------------------------------------------------------
(* Query results.  A query without ORDER BY may return its rows in any
   order; ORDER BY leaves the order of ties to the store. *)

(* The orders of the rows S that are sorted by the strict weak order
   Before (a set of pairs <<x, y>>, x strictly before y): the results an
   ORDER BY can produce. *)
RECURSIVE OrderedBy(_, _)
OrderedBy(S, Before) ==
    IF S = {} THEN {<<>>}
    ELSE UNION {{<<x>> \o t : t \in OrderedBy(S \ {x}, Before)} :
                    x \in {y \in S : \A z \in S : <<z, y>> \notin Before}}

Prefix(s, n) == SubSeq(s, 1, Min(n, Len(s)))

(* LIMIT n applied to each possible result *)
Limited(results, n) == {Prefix(s, n) : s \in results}

(* Mutant: the comparison of an ascending order *)
AvgSmaller(a, b) ==
    IF a = Null THEN FALSE
    ELSE IF b = Null THEN TRUE
    ELSE a[1] * b[2] < b[1] * a[2]

(* avg_rating DESC: NULL sorts first in descending order (PostgreSQL). *)
AvgGreater(a, b) ==
    IF b = Null THEN FALSE
    ELSE IF a = Null THEN TRUE
    ELSE a[1] * b[2] > b[1] * a[2]

(* SELECT id, title FROM books ORDER BY title *)
AllBooksQuery ==
    LET out == {<<b, books[b].title>> : b \in DOMAIN books}
    IN OrderedBy(out, {p \in out \X out : p[1][2] < p[2][2]})

(* SELECT AVG(rating), COUNT(rating) FROM ratings WHERE book_id = %s:
   an aggregate without GROUP BY always yields exactly one row. *)
RatingQuery(book_id) ==
    LET vals == RatingValues(RatingsOf(book_id))
    IN <<SqlAvg(vals), SqlCount(vals)>>

(* Mutant: an inner JOIN, which drops the books without a rating *)
InnerJoinedBooks == {b \in DOMAIN books : RatingsOf(b) # <<>>}

(* Mutant: the join without its ON r.book_id = b.id *)
CrossJoinRatings(b) == RatingValues(ratings)

(* books b LEFT JOIN ratings r ON b.id = r.book_id: every book is kept,
   with an all-NULL r (here: no rating values) when nothing matches. *)
JoinedBooks == DOMAIN books

LeftJoinRatings(b) == RatingValues(RatingsOf(b))

(* Mutant: the WHERE clause without b.id != %s *)
CandidatesNotExcluding(reference_book_id, exclude_book_id) ==
    {b \in DOMAIN books :
        /\ books[b].embedding # Null
        /\ SqlLess(CosineDistance(books[b].embedding, EmbeddingOf(reference_book_id)),
                   DistanceThreshold * DistScale)}

(* The candidates of the recommendation query with an exclusion id:
   WHERE b.embedding IS NOT NULL AND b.id != %s AND b.embedding <=> ref < 2.0 *)
Candidates(reference_book_id, exclude_book_id) ==
    {b \in JoinedBooks :
        /\ books[b].embedding # Null
        /\ b # exclude_book_id
        /\ SqlLess(CosineDistance(books[b].embedding, EmbeddingOf(reference_book_id)),
                   DistanceThreshold * DistScale)}

(* One output row per group of GROUP BY b.id, b.title, b.embedding *)
GroupRow(b, reference_book_id) ==
    <<b, books[b].title,
      CosineDistance(books[b].embedding, EmbeddingOf(reference_book_id)),
      SqlAvg(LeftJoinRatings(b)), SqlCount(LeftJoinRatings(b))>>

(* Mutant: the query with ORDER BY distance before its LIMIT *)
ExcludingQueryOrdered(reference_book_id, exclude_book_id, limit) ==
    LET groups == {GroupRow(b, reference_book_id) :
                      b \in Candidates(reference_book_id, exclude_book_id)}
    IN Limited(OrderedBy(groups, {p \in groups \X groups : p[1][3] < p[2][3]}), limit)

(* Mutant: the query without its LIMIT *)
ExcludingQueryUnlimited(reference_book_id, exclude_book_id, limit) ==
    LET groups == {GroupRow(b, reference_book_id) :
                      b \in Candidates(reference_book_id, exclude_book_id)}
    IN Arrangements(groups, Cardinality(groups))

(* The query of the exclude_book_id branch: 5 columns, no ORDER BY, LIMIT. *)
ExcludingQuery(reference_book_id, exclude_book_id, limit) ==
    LET groups == {GroupRow(b, reference_book_id) :
                      b \in Candidates(reference_book_id, exclude_book_id)}
    IN Arrangements(groups, Min(limit, Cardinality(groups)))

(* The query of the else branch: 3 columns, every book with an embedding,
   ORDER BY distance (ascending, NULL last), LIMIT. *)
PlainQuery(reference_book_id, limit) ==
    LET out == {<<b, books[b].title,
                  CosineDistance(books[b].embedding, EmbeddingOf(reference_book_id))>> :
                    b \in {c \in DOMAIN books : books[c].embedding # Null}}
    IN Limited(OrderedBy(out, {p \in out \X out :
                    p[1][3] # NullDist /\ (p[2][3] = NullDist \/ p[1][3] < p[2][3])}),
               limit)

(* if exclude_book_id: ... else: ... *)
RecommendationQuery(reference_book_id, limit, exclude_book_id) ==
    IF exclude_book_id # NoId
    THEN ExcludingQuery(reference_book_id, exclude_book_id, limit)
    ELSE PlainQuery(reference_book_id, limit)

(* Mutant: the trend over all ratings, without the WHERE clause *)
TrendQueryAllTime ==
    LET days == {ratings[i].age : i \in DOMAIN ratings}
        onDay(a) == RatingValues(SelectSeq(ratings, LAMBDA r : r.age = a))
        out == {<<0 - a, SqlAvg(onDay(a)), Len(onDay(a))>> : a \in days}
    IN OrderedBy(out, {p \in out \X out : p[1][1] < p[2][1]})

(* The trend query: ratings of the last 30 days, one row <<date, avg, count>>
   per day, ORDER BY date.  A date is the day number relative to today. *)
TrendQuery ==
    LET recent == SelectSeq(ratings, LAMBDA r : r.age <= TrendWindowDays)
        days == {recent[i].age : i \in DOMAIN recent}
        onDay(a) == RatingValues(SelectSeq(recent, LAMBDA r : r.age = a))
        out == {<<0 - a, SqlAvg(onDay(a)), Len(onDay(a))>> : a \in days}
    IN OrderedBy(out, {p \in out \X out : p[1][1] < p[2][1]})

(* Mutant: a threshold one too low *)
HavingAtLeastTwo(n) == n >= MinTopRatings - 1

(* HAVING COUNT(r.rating) >= 3 *)
Having(n) == n >= MinTopRatings

(* The leaderboard query: books JOIN ratings (a book without a rating
   drops out), GROUP BY b.id, b.title, HAVING, ORDER BY avg_rating DESC,
   num_ratings DESC, LIMIT 10; one row <<title, avg, count>> per group. *)
TopRow(b) ==
    <<books[b].title, SqlAvg(RatingValues(RatingsOf(b))),
      SqlCount(RatingValues(RatingsOf(b)))>>

TopQuery ==
    LET joined == {b \in DOMAIN books : RatingsOf(b) # <<>>}
        row == [b \in joined |-> TopRow(b)]
        kept == {b \in joined : Having(row[b][3])}
        orders == OrderedBy(kept, {p \in kept \X kept :
                      \/ AvgGreater(row[p[1]][2], row[p[2]][2])
                      \/ (row[p[1]][2] = row[p[2]][2] /\ row[p[1]][3] > row[p[2]][3])})
    IN {[i \in DOMAIN Prefix(o, TopLimit) |-> row[o[i]]] : o \in orders}

----------------------------------------------------------------------------
(* Python values and the Python side of the operations *)

None == [t |-> "None", v |-> <<>>]
PyList(v) == [t |-> "list", v |-> v]

(* The encodings in which the driver may hand over an embedding: the text
   form "[1,0]" (a sequence of one-token strings), a native sequence, or
   an object that is neither text nor iterable. *)
Encodings == {"str", "list", "other"}

RECURSIVE JoinTokens(_)
JoinTokens(v) ==
    IF v = <<>> THEN <<>>
    ELSE IF Len(v) = 1 THEN <<ToString(v[1])>>
    ELSE <<ToString(v[1]), ",">> \o JoinTokens(Tail(v))

VectorText(v) == <<"[">> \o JoinTokens(v) \o <<"]">>

Encoded(v, enc) ==
    IF enc = "str" THEN [t |-> "str", v |-> VectorText(v)]
    ELSE [t |-> enc, v |-> v]

RECURSIVE LStrip(_, _)
LStrip(s, chars) ==
    IF s # <<>> /\ Head(s) \in chars THEN LStrip(Tail(s), chars) ELSE s

RECURSIVE RStrip(_, _)
RStrip(s, chars) ==
    IF s # <<>> /\ s[Len(s)] \in chars
    THEN RStrip(SubSeq(s, 1, Len(s) - 1), chars) ELSE s

(* str.strip(chars) *)
Strip(s, chars) == RStrip(LStrip(s, chars), chars)

(* str.split(sep) *)
RECURSIVE Split(_, _)
Split(s, sep) ==
    IF \A i \in DOMAIN s : s[i] # sep THEN <<s>>
    ELSE LET i == CHOOSE j \in DOMAIN s : s[j] = sep /\ \A k \in 1..(j - 1) : s[k] # sep
         IN <<SubSeq(s, 1, i - 1)>> \o Split(SubSeq(s, i + 1, Len(s)), sep)

Whitespace == {" "}

(* The numbers a numeral of a sample embedding may denote *)
Coords == UNION {{v[1], v[2]} : v \in SampleVectors}

(* float(x) is defined on a single numeral *)
IsFloat(x) == Len(x) = 1 /\ \E n \in Coords : ToString(n) = x[1]
Float(x) == CHOOSE n \in Coords : ToString(n) = x[1]

(* Mutant: the split without strip('[]') *)
TextItemsWithBrackets(text) ==
    SelectSeq(Split(text, ","), LAMBDA x : Strip(x, Whitespace) # <<>>)

(* [float(x.strip()) for x in embedding_str.split(',') if x.strip()] *)
TextItems(text) ==
    SelectSeq(Split(Strip(text, {"[", "]"}), ","),
              LAMBDA x : Strip(x, Whitespace) # <<>>)

(* bool(result[0]) of a fetched embedding *)
PyTruthy(value) == value.t = "other" \/ value.v # <<>>

(* get_book_embedding, from the fetched row on: [raises, value].  result is
   <<>> when fetchone() returned None, else the one-column row. *)
EmbeddingBody(result) ==
    IF result # <<>> /\ PyTruthy(result[1])
    THEN LET embedding == result[1]
         IN IF embedding.t = "str"
            THEN LET items == TextItems(embedding.v)
                     stripped == [i \in DOMAIN items |-> Strip(items[i], Whitespace)]
                 IN IF \A i \in DOMAIN stripped : IsFloat(stripped[i])
                    THEN [raises |-> FALSE,
                          value |-> PyList([i \in DOMAIN stripped |-> Float(stripped[i])])]
                    ELSE [raises |-> TRUE, value |-> None]
            ELSE IF embedding.t = "list"
            THEN [raises |-> FALSE, value |-> PyList(embedding.v)]
            ELSE [raises |-> FALSE, value |-> embedding]
    ELSE [raises |-> FALSE, value |-> None]

(* Mutant: the query without id = %s, which returns the embedding of some
   book whatever the id *)
EmbeddingQueryAnyBook(book_id, enc) ==
    IF \E b \in DOMAIN books : books[b].embedding # Null
    THEN <<Encoded(books[CHOOSE b \in DOMAIN books : books[b].embedding # Null].embedding,
                   enc)>>
    ELSE <<>>

(* SELECT embedding FROM books WHERE id = %s AND embedding IS NOT NULL;
   fetchone(): <<>> for no row, else the row <<embedding>>. *)
EmbeddingQuery(book_id, enc) ==
    IF book_id \in DOMAIN books /\ books[book_id].embedding # Null
    THEN <<Encoded(books[book_id].embedding, enc)>>
    ELSE <<>>

(* get_book_rating, from the fetched row on *)
RatingBody(result) ==
    IF result # <<>> /\ Truthy(result[1])
    THEN <<result[1], result[2]>>
    ELSE <<Null, 0>>

(* Mutant: the similarity without its clamp at 0 *)
SimilarityUnclamped(distance) == DistScale - distance

(* max(0, 1 - row[2]) *)
Similarity(distance) == Max(0, DistScale - distance)

(* The record built from one fetched row *)
Recommendation(row) ==
    [id |-> row[1],
     title |-> row[2],
     similarity_score |-> Similarity(row[3]),
     avg_rating |-> IF Truthy(row[4]) THEN row[4] ELSE Null,
     num_ratings |-> IF row[5] # 0 THEN row[5] ELSE 0]

(* Building the record raises when the row has no column 3 or 4
   (IndexError) or its distance is None (TypeError). *)
RowRaises(row) == Len(row) < 5 \/ row[3] = NullDist

(* list.sort(key=similarity_score, reverse=True): a stable sort, equal
   keys keep their order. *)
(* Mutant: an insertion that puts a record before the records of equal
   score (the order of ties is reversed) *)
InsertBeforeEqual(sorted, r) ==
    LET k == Cardinality({i \in DOMAIN sorted :
                             sorted[i].similarity_score > r.similarity_score})
    IN SubSeq(sorted, 1, k) \o <<r>> \o SubSeq(sorted, k + 1, Len(sorted))

InsertDescending(sorted, r) ==
    LET k == Cardinality({i \in DOMAIN sorted :
                             sorted[i].similarity_score >= r.similarity_score})
    IN SubSeq(sorted, 1, k) \o <<r>> \o SubSeq(sorted, k + 1, Len(sorted))

RECURSIVE SortBySimilarity(_)
SortBySimilarity(recs) ==
    IF recs = <<>> THEN <<>>
    ELSE InsertDescending(SortBySimilarity(SubSeq(recs, 1, Len(recs) - 1)),
                          recs[Len(recs)])

(* get_book_recommendations, from the fetched rows on: [raises, value] *)
RecommendationsBody(results) ==
    IF \E i \in DOMAIN results : RowRaises(results[i])
    THEN [raises |-> TRUE, value |-> <<>>]
    ELSE [raises |-> FALSE,
          value |-> SortBySimilarity([i \in DOMAIN results |-> Recommendation(results[i])])]

(* What each operation's except clause returns and reports *)
BooksOnError == [value |-> <<>>, errors |-> 1, raises |-> FALSE]
RatingOnError == [value |-> <<Null, 0>>, errors |-> 0, raises |-> FALSE]
EmbeddingOnError == [value |-> None, errors |-> 1, raises |-> FALSE]
RecommendationsOnError == [value |-> <<>>, errors |-> 1, raises |-> FALSE]

(* Mutant: a handler that returns the trend fetched before the failure *)
AnalyticsPartialOnError(rating_trend) ==
    [value |-> <<rating_trend, <<>>>>, errors |-> 1, raises |-> FALSE]

AnalyticsOnError(rating_trend) == [value |-> <<<<>>, <<>>>>, errors |-> 1, raises |-> FALSE]

----------------------------------------------------------------------------
(* The operations.  Every cursor.execute may fail: always once the
   connection's transaction is aborted (no operation rolls back), and
   otherwise when the store reports an error (fault). *)

Faults == BOOLEAN

QueryFails(fault) == txStatus = "aborted" \/ fault

NoArgs == [book_id |-> NoId, limit |-> 0, exclude_book_id |-> NoId]

(* The operation name has returned out.value; failedAt is the number of the
   query that failed, 0 if none did. *)
Returns(name, a, fetched, out, issued, failedAt) ==
    /\ op' = name
    /\ args' = a
    /\ rows' = fetched
    /\ ret' = out.value
    /\ errors' = out.errors
    /\ raised' = out.raises
    /\ queries' = issued
    /\ failed' = failedAt
    /\ txStatus' = IF failedAt # 0 THEN "aborted" ELSE txStatus
    /\ UNCHANGED <<store, workload>>

Ok(value) == [value |-> value, errors |-> 0, raises |-> FALSE]

(* try: body; except Exception: handler *)
Try(body, handler) == IF body.raises THEN handler ELSE Ok(body.value)

(* The calls of the five operations, with the arguments drawn from the
   given sets; faults tells whether the store may accept (FALSE) or reject
   (TRUE) the statement on its own account. *)
AllBooksCall(faults) ==
    /\ op = "idle"
    /\ \E fault \in faults :
        IF QueryFails(fault)
        THEN Returns("get_all_books", NoArgs, <<>>, BooksOnError, 1, 1)
        ELSE \E results \in AllBooksQuery :
                Returns("get_all_books", NoArgs, results,
                        Ok([i \in DOMAIN results |->
                              [id |-> results[i][1], title |-> results[i][2]]]),
                        1, 0)

RatingCall(ids, faults) ==
    /\ op = "idle"
    /\ \E book_id \in ids, fault \in faults :
        LET a == [NoArgs EXCEPT !.book_id = book_id]
        IN IF QueryFails(fault)
           THEN Returns("get_book_rating", a, <<>>, RatingOnError, 1, 1)
           ELSE Returns("get_book_rating", a, <<RatingQuery(book_id)>>,
                        Ok(RatingBody(RatingQuery(book_id))), 1, 0)

EmbeddingCall(ids, faults) ==
    /\ op = "idle"
    /\ \E book_id \in ids, enc \in Encodings, fault \in faults :
        LET a == [NoArgs EXCEPT !.book_id = book_id]
        IN IF QueryFails(fault)
           THEN Returns("get_book_embedding", a, <<>>, EmbeddingOnError, 1, 1)
           ELSE Returns("get_book_embedding", a, EmbeddingQuery(book_id, enc),
                        Try(EmbeddingBody(EmbeddingQuery(book_id, enc)), EmbeddingOnError),
                        1, 0)

RecommendationsCall(ids, limits, excludes, faults) ==
    /\ op = "idle"
    /\ \E reference_book_id \in ids, limit \in limits,
          exclude_book_id \in excludes, fault \in faults :
        LET a == [book_id |-> reference_book_id, limit |-> limit,
                  exclude_book_id |-> exclude_book_id]
        IN IF QueryFails(fault)
           THEN Returns("get_book_recommendations", a, <<>>, RecommendationsOnError, 1, 1)
           ELSE \E results \in RecommendationQuery(reference_book_id, limit, exclude_book_id) :
                   Returns("get_book_recommendations", a, results,
                           Try(RecommendationsBody(results), RecommendationsOnError),
                           1, 0)

(* Two queries; the second is issued only if the first succeeded. *)
AnalyticsCall(faults1, faults2) ==
    /\ op = "idle"
    /\ \E fault1 \in faults1, fault2 \in faults2 :
        IF QueryFails(fault1)
        THEN Returns("get_rating_analytics", NoArgs, <<<<>>, <<>>>>,
                     AnalyticsOnError(<<>>), 1, 1)
        ELSE \E rating_trend \in TrendQuery :
                IF fault2
                THEN Returns("get_rating_analytics", NoArgs, <<rating_trend, <<>>>>,
                             AnalyticsOnError(rating_trend), 2, 2)
                ELSE \E top_books \in TopQuery :
                        Returns("get_rating_analytics", NoArgs, <<rating_trend, top_books>>,
                                Ok(<<rating_trend, top_books>>), 2, 0)

(* The operations called on their own, with any arguments *)
GetAllBooks == AllBooksCall(Faults) /\ UNCHANGED session

GetBookRating == RatingCall(BookIds \cup {MissingId}, Faults) /\ UNCHANGED session

GetBookEmbedding == EmbeddingCall(BookIds \cup {MissingId}, Faults) /\ UNCHANGED session

GetBookRecommendations ==
    /\ RecommendationsCall(BookIds \cup {MissingId}, 1..MaxLimit,
                           {NoId} \cup BookIds \cup {MissingId}, Faults)
    /\ UNCHANGED session

GetRatingAnalytics == AnalyticsCall(Faults, Faults) /\ UNCHANGED session

(* The caller has used the result; the next call can be made. *)
Idle ==
    /\ op' = "idle"
    /\ args' = NoArgs
    /\ rows' = <<>>
    /\ ret' = <<>>
    /\ errors' = 0
    /\ queries' = 0
    /\ failed' = 0
    /\ raised' = FALSE
    /\ faulty' = FALSE

Return ==
    /\ pc = "none"
    /\ op # "idle"
    /\ Idle
    /\ UNCHANGED <<store, workload, txStatus, pc, selected_book_id, book_embedding,
                   shown, calls>>

(* A rerun of main() opens a new connection (get_database_connection). *)
Reconnect ==
    /\ pc = "none"
    /\ op = "idle"
    /\ txStatus = "aborted"
    /\ txStatus' = "ok"
    /\ UNCHANGED <<store, workload, op, args, rows, ret, errors, queries, failed, raised,
                   session>>

(* Outside a run of main() *)
NoSession ==
    /\ pc = "none"
    /\ selected_book_id = NoId
    /\ book_embedding = None
    /\ shown = {}
    /\ calls = <<>>

(* Outside a call of run_workload *)
NoWorkload ==
    /\ at = "idle"
    /\ num_iterations = 0
    /\ delay_between_queries = 0
    /\ iteration = 0
    /\ total_execution_time = 0
    /\ successful_queries = 0
    /\ failed_queries = 0
    /\ summary = [successful |-> 0, failed |-> 0, total_time |-> 0, avg_time |-> <<0, 1>>]
    /\ outcomes = <<>>

----------------------------------------------------------------------------
(* The stores the operations are run on *)

(* Rating rows: a rating is the lowest or the highest of the 1..5 scale,
   its age is the number of days since its timestamp. *)
RatingRows(ages) ==
    [book_id : Ids, rating : {MinRating, MaxRating}, age : ages]

RowKey(r) == (r.book_id * (MaxRating + 1) + r.rating) * (2 * TrendWindowDays + 2) + r.age

(* The tables of at most n rows, one per multiset of rows *)
RECURSIVE RatingTables(_, _)
RatingTables(ages, n) ==
    IF n = 0 THEN {<<>>}
    ELSE LET shorter == RatingTables(ages, n - 1)
         IN shorter \cup
            UNION {{Append(t, r) : r \in {x \in RatingRows(ages) :
                                            t = <<>> \/ RowKey(t[Len(t)]) <= RowKey(x)}} :
                      t \in {u \in shorter : Len(u) = n - 1}}

(* Titles are numbered so that title order is the reverse of id order. *)
BookTables ==
    {[b \in Ids |-> [title |-> NumBooks + 1 - b, embedding |-> e[b]]] :
        e \in [Ids -> Embeddings]}

(* Any sample embedding or none for each book, at most MaxRatings ratings,
   all of today; a fresh connection and no call made yet. *)
Init ==
    /\ books \in BookTables
    /\ ratings \in RatingTables({0}, MaxRatings)
    /\ txStatus = "ok"
    /\ op = "idle"
    /\ args = NoArgs
    /\ rows = <<>>
    /\ ret = <<>>
    /\ errors = 0
    /\ queries = 0
    /\ failed = 0
    /\ raised = FALSE
    /\ faulty = FALSE
    /\ NoSession
    /\ NoWorkload

Next ==
    \/ GetAllBooks
    \/ GetBookRating
    \/ GetBookEmbedding
    \/ GetBookRecommendations
    \/ GetRatingAnalytics
    \/ Return
    \/ Reconnect

Spec == Init /\ [][Next]_vars

(* Stores for the rating operations: every book has an embedding, the
   ratings are 30 or 31 days old. *)
MaxTableRows == 5      \* rows of the ratings table

InitAnalytics ==
    /\ books = [b \in Ids |-> [title |-> NumBooks + 1 - b, embedding |-> <<1, 0>>]]
    /\ ratings \in RatingTables({TrendWindowDays, TrendWindowDays + 1}, MaxTableRows)
    /\ txStatus = "ok"
    /\ op = "idle"
    /\ args = NoArgs
    /\ rows = <<>>
    /\ ret = <<>>
    /\ errors = 0
    /\ queries = 0
    /\ failed = 0
    /\ raised = FALSE
    /\ faulty = FALSE
    /\ NoSession
    /\ NoWorkload

NextAnalytics ==
    \/ GetAllBooks
    \/ GetBookRating
    \/ GetRatingAnalytics
    \/ Return
    \/ Reconnect

SpecAnalytics == InitAnalytics /\ [][NextAnalytics]_vars

(* Stores for the leaderboard: more books than the leaderboard holds.  The
   books 2k-1 and 2k are on level k, and a level-k book has three ratings
   of sum 16 - k.  By a choice made for each level, the odd book of the
   level has only two ratings of 5 instead (choice 1), or the even book has
   its three ratings twice: the same average, twice the count (choice 2). *)
ExtraBooks == 1        \* books beyond the size of the leaderboard

BoardIds == 1..(TopLimit + ExtraBooks)

Level(b) == (b + 1) \div 2

ThreeRatings(sum) ==
    LET r1 == Min(MaxRating, sum - 2 * MinRating)
        r2 == Min(MaxRating, sum - r1 - MinRating)
    IN <<r1, r2, sum - r1 - r2>>

BoardProfile(b, choice) ==
    LET three == ThreeRatings(3 * MaxRating + 1 - Level(b))
    IN IF choice = 1 /\ b % 2 = 1 THEN <<MaxRating, MaxRating>>
       ELSE IF choice = 2 /\ b % 2 = 0 THEN three \o three
       ELSE three

RECURSIVE BoardRatings(_, _)
BoardRatings(choice, n) ==
    IF n = 0 THEN <<>>
    ELSE BoardRatings(choice, n - 1) \o
         [i \in DOMAIN BoardProfile(n, choice[Level(n)]) |->
            [book_id |-> n, rating |-> BoardProfile(n, choice[Level(n)])[i], age |-> 0]]

InitBoard ==
    /\ books = [b \in BoardIds |->
                    [title |-> TopLimit + ExtraBooks + 1 - b, embedding |-> <<1, 0>>]]
    /\ \E choice \in [{Level(b) : b \in BoardIds} -> {0, 1, 2}] :
            ratings = BoardRatings(choice, TopLimit + ExtraBooks)
    /\ txStatus = "ok"
    /\ op = "idle"
    /\ args = NoArgs
    /\ rows = <<>>
    /\ ret = <<>>
    /\ errors = 0
    /\ queries = 0
    /\ failed = 0
    /\ raised = FALSE
    /\ faulty = FALSE
    /\ NoSession
    /\ NoWorkload

NextBoard ==
    \/ GetRatingAnalytics
    \/ Return
    \/ Reconnect

SpecBoard == InitBoard /\ [][NextBoard]_vars

(* Stores for the recommendation query alone: any books, no ratings. *)
InitUnrated ==
    /\ books \in BookTables
    /\ ratings = <<>>
    /\ txStatus = "ok"
    /\ op = "idle"
    /\ args = NoArgs
    /\ rows = <<>>
    /\ ret = <<>>
    /\ errors = 0
    /\ queries = 0
    /\ failed = 0
    /\ raised = FALSE
    /\ faulty = FALSE
    /\ NoSession
    /\ NoWorkload

NextUnrated ==
    \/ GetBookRecommendations
    \/ Return
    \/ Reconnect

SpecUnrated == InitUnrated /\ [][NextUnrated]_vars

(* A run of main().  pc names the statement the run is at; a call of an
   operation is one step and the use of its result the next. *)
SliderMin == 5
SliderMax == 20
Slider == {SliderMin, DefaultLimit, SliderMax}   \* num_recommendations

(* Mutant: st.stop() that returns to the caller *)
StopReturns(next) == next

(* st.stop(): the run ends, whatever statement would come next *)
Stop(next) == "stopped"

(* Mutant: the recommendations are asked for whatever the embedding *)
EmbeddingAssumed(embedding) == TRUE

(* if book_embedding: *)
EmbeddingFound(embedding) == PyTruthy(embedding)

(* The st.error an operation emitted, as it appears on the page *)
Reported == IF errors > 0 THEN {<<"st.error", op>>} ELSE {}

(* get_database_connection and the line after its call *)
Connect ==
    /\ pc = "connect"
    /\ \E database_url \in BOOLEAN, connects \in BOOLEAN :
        IF ~database_url
        THEN /\ shown' = shown \cup {<<"st.error", "DATABASE_URL environment variable not set">>}
             /\ pc' = Stop("get_all_books")
        ELSE IF ~connects
        THEN /\ shown' = shown \cup {<<"st.error", "Database connection failed">>}
             /\ pc' = Stop("get_all_books")
        ELSE /\ shown' = shown \cup {<<"st.success", "Connected to Aiven PostgreSQL">>}
             /\ pc' = "get_all_books"
    /\ UNCHANGED <<store, workload, txStatus, op, args, rows, ret, errors, queries, failed,
                   raised,
                   faulty, selected_book_id, book_embedding, calls>>

MainGetAllBooks ==
    /\ pc = "get_all_books"
    /\ \E fault \in Faults : AllBooksCall({fault}) /\ faulty' = fault
    /\ pc' = "if all_books"
    /\ calls' = Append(calls, "get_all_books")
    /\ UNCHANGED <<selected_book_id, book_embedding, shown>>

(* if all_books: the selectbox; else: the warning *)
SelectBook ==
    /\ pc = "if all_books"
    /\ Idle
    /\ IF ret # <<>>
       THEN /\ \E i \in DOMAIN ret : selected_book_id' = ret[i].id
            /\ shown' = shown \cup Reported
            /\ pc' = "get_book_rating"
       ELSE /\ shown' = shown \cup Reported
                            \cup {<<"st.warning", "No books found in the database">>}
            /\ pc' = "Quick Stats"
            /\ UNCHANGED selected_book_id
    /\ UNCHANGED <<store, workload, txStatus, book_embedding, calls>>

MainGetBookRating ==
    /\ pc = "get_book_rating"
    /\ \E fault \in Faults : RatingCall({selected_book_id}, {fault}) /\ faulty' = fault
    /\ pc' = "if st.button"
    /\ calls' = Append(calls, "get_book_rating")
    /\ UNCHANGED <<selected_book_id, book_embedding, shown>>

(* The selected book's info, the slider and the button *)
Button ==
    /\ pc = "if st.button"
    /\ Idle
    /\ shown' = shown \cup Reported \cup {<<"st.info", "Selected">>}
    /\ \E pressed \in BOOLEAN :
            pc' = IF pressed THEN "get_book_embedding" ELSE "Quick Stats"
    /\ UNCHANGED <<store, workload, txStatus, selected_book_id, book_embedding, calls>>

MainGetBookEmbedding ==
    /\ pc = "get_book_embedding"
    /\ \E fault \in Faults : EmbeddingCall({selected_book_id}, {fault}) /\ faulty' = fault
    /\ book_embedding' = ret'
    /\ pc' = "if book_embedding"
    /\ calls' = Append(calls, "get_book_embedding")
    /\ UNCHANGED <<selected_book_id, shown>>

(* if book_embedding: ... else: st.error(...) *)
IfBookEmbedding ==
    /\ pc = "if book_embedding"
    /\ Idle
    /\ IF EmbeddingFound(book_embedding)
       THEN /\ shown' = shown \cup Reported
            /\ pc' = "get_book_recommendations"
       ELSE /\ shown' = shown \cup Reported
                    \cup {<<"st.error", "Could not get embedding for the selected book">>}
            /\ pc' = "Quick Stats"
    /\ UNCHANGED <<store, workload, txStatus, selected_book_id, book_embedding, calls>>

MainGetBookRecommendations ==
    /\ pc = "get_book_recommendations"
    /\ \E fault \in Faults :
            /\ RecommendationsCall({selected_book_id}, Slider, {selected_book_id}, {fault})
            /\ faulty' = fault
    /\ pc' = "if recommendations"
    /\ calls' = Append(calls, "get_book_recommendations")
    /\ UNCHANGED <<selected_book_id, book_embedding, shown>>

(* if recommendations: the table; else: the warning *)
IfRecommendations ==
    /\ pc = "if recommendations"
    /\ Idle
    /\ shown' = shown \cup Reported \cup
                    IF ret # <<>> THEN {<<"st.success", "Found similar books">>}
                    ELSE {<<"st.warning", "No similar books found">>}
    /\ pc' = "Quick Stats"
    /\ UNCHANGED <<store, workload, txStatus, selected_book_id, book_embedding, calls>>

(* Quick Stats: three count queries in a try block of their own *)
QuickStats ==
    /\ pc = "Quick Stats"
    /\ \E fault \in Faults :
        IF QueryFails(fault)
        THEN /\ txStatus' = "aborted"
             /\ shown' = shown \cup {<<"st.error", "Error getting stats">>}
        ELSE /\ shown' = shown \cup {<<"st.metric", "Total Books">>}
             /\ UNCHANGED txStatus
    /\ calls' = Append(calls, "Quick Stats")
    /\ pc' = "get_rating_analytics"
    /\ UNCHANGED <<store, workload, op, args, rows, ret, errors, queries, failed, raised,
                   faulty,
                   selected_book_id, book_embedding>>

MainGetRatingAnalytics ==
    /\ pc = "get_rating_analytics"
    /\ \E fault1 \in Faults, fault2 \in Faults :
            /\ AnalyticsCall({fault1}, {fault2})
            /\ faulty' = (fault1 \/ fault2)
    /\ pc' = "if rating_trend"
    /\ calls' = Append(calls, "get_rating_analytics")
    /\ UNCHANGED <<selected_book_id, book_embedding, shown>>

(* The two charts, and the end of the script *)
Charts ==
    /\ pc = "if rating_trend"
    /\ Idle
    /\ shown' = shown \cup Reported
    /\ pc' = "done"
    /\ UNCHANGED <<store, workload, txStatus, selected_book_id, book_embedding, calls>>

(* Streamlit runs the script again, on a page of its own, with a new
   connection. *)
Rerun ==
    /\ pc \in {"done", "stopped"}
    /\ pc' = "connect"
    /\ selected_book_id' = NoId
    /\ book_embedding' = None
    /\ shown' = {}
    /\ calls' = <<>>
    /\ txStatus' = "ok"
    /\ UNCHANGED <<store, workload, op, args, rows, ret, errors, queries, failed, raised, faulty>>

InitMain ==
    /\ books \in BookTables
    /\ ratings \in RatingTables({0}, 1)
    /\ txStatus = "ok"
    /\ op = "idle"
    /\ args = NoArgs
    /\ rows = <<>>
    /\ ret = <<>>
    /\ errors = 0
    /\ queries = 0
    /\ failed = 0
    /\ raised = FALSE
    /\ faulty = FALSE
    /\ pc = "connect"
    /\ selected_book_id = NoId
    /\ book_embedding = None
    /\ shown = {}
    /\ calls = <<>>
    /\ NoWorkload

NextMain ==
    \/ Connect
    \/ MainGetAllBooks
    \/ SelectBook
    \/ MainGetBookRating
    \/ Button
    \/ MainGetBookEmbedding
    \/ IfBookEmbedding
    \/ MainGetBookRecommendations
    \/ IfRecommendations
    \/ QuickStats
    \/ MainGetRatingAnalytics
    \/ Charts
    \/ Rerun

SpecMain == InitMain /\ [][NextMain]_vars

(* QueryWorkloadRunner.run_workload (demo/query_runner.py).  Times are whole
   milliseconds; the average is the exact fraction <<total, count>> in
   lowest terms, and <<0, 1>> stands for both 0 and 0.0. *)
MaxIterations == 3     \* largest num_iterations
MaxTime == 2           \* longest execution time of one query

Outcomes == {"ok", "missing", "failed"}   \* of the query of one iteration
Delays == {0 - 1, 0, 1}                   \* --delay, any float

app == <<store, txStatus, op, args, rows, ret, errors, queries, failed, raised, session>>

(* run_slow_query: <<execution_time, number of rows>>, or <<0, 0>> when the
   query file is missing or empty or the execution fails; it never raises. *)
RunSlowQuery(outcome, time, num_rows) ==
    IF outcome = "ok" THEN <<time, num_rows>> ELSE <<0, 0>>

(* time.sleep raises ValueError on a negative argument. *)
SleepRaises(delay) == delay < 0

(* total / count as a fraction in lowest terms *)
Quotient(total, count) == <<total \div GCD(total, count), count \div GCD(total, count)>>

(* The call, up to the for loop *)
RunWorkload ==
    /\ at \in {"idle", "returned", "raised"}
    /\ \E n \in 0..MaxIterations, delay \in Delays :
        /\ num_iterations' = n
        /\ delay_between_queries' = delay
    /\ iteration' = 0
    /\ total_execution_time' = 0
    /\ successful_queries' = 0
    /\ failed_queries' = 0
    /\ outcomes' = <<>>
    /\ at' = "loop"
    /\ UNCHANGED <<app, summary>>

(* One pass of the loop body: the try block and its handler *)
Iteration ==
    /\ at = "loop"
    /\ iteration < num_iterations
    /\ \E outcome \in Outcomes, time \in 0..MaxTime, num_rows \in {0, 1} :
        LET execution_time == RunSlowQuery(outcome, time, num_rows)[1]
        IN /\ total_execution_time' = total_execution_time + execution_time
           /\ successful_queries' = successful_queries + 1
           /\ outcomes' = Append(outcomes, outcome)
    /\ failed_queries' = IF SleepRaises(delay_between_queries)
                         THEN failed_queries + 1
                         ELSE failed_queries
    /\ iteration' = iteration + 1
    /\ UNCHANGED <<app, at, num_iterations, delay_between_queries, summary>>

(* After the loop: the summary log lines divide by successful_queries (and
   by successful_queries + failed_queries) without a guard; the returned
   dict has one. *)
Summary ==
    /\ at = "loop"
    /\ iteration = num_iterations
    /\ IF successful_queries = 0 \/ successful_queries + failed_queries = 0
       THEN /\ at' = "raised"
            /\ UNCHANGED summary
       ELSE /\ at' = "returned"
            /\ summary' = [successful |-> successful_queries,
                           failed |-> failed_queries,
                           total_time |-> total_execution_time,
                           avg_time |-> IF successful_queries > 0
                                        THEN Quotient(total_execution_time,
                                                      successful_queries)
                                        ELSE <<0, 1>>]
    /\ UNCHANGED <<app, num_iterations, delay_between_queries, iteration,
                   total_execution_time, successful_queries, failed_queries, outcomes>>

InitWorkload ==
    /\ books = <<>>
    /\ ratings = <<>>
    /\ txStatus = "ok"
    /\ op = "idle"
    /\ args = NoArgs
    /\ rows = <<>>
    /\ ret = <<>>
    /\ errors = 0
    /\ queries = 0
    /\ failed = 0
    /\ raised = FALSE
    /\ faulty = FALSE
    /\ NoSession
    /\ NoWorkload

NextWorkload ==
    \/ RunWorkload
    \/ Iteration
    \/ Summary

SpecWorkload == InitWorkload /\ [][NextWorkload]_vars

(* The end-to-end scenario: item A (id 1); item B (id 2) with A's embedding
   and the five ratings 5, 4, 4, 4, 4 (average 4.2); item C (id 3) with an
   embedding orthogonal to A's and no rating. *)
ScenarioBooks ==
    <<[title |-> 3, embedding |-> <<1, 0>>],
      [title |-> 2, embedding |-> <<1, 0>>],
      [title |-> 1, embedding |-> <<0, 1>>]>>

ScenarioRatings ==
    [i \in 1..5 |-> [book_id |-> 2, rating |-> IF i = 1 THEN 5 ELSE 4, age |-> 0]]

InitScenario ==
    /\ books = ScenarioBooks
    /\ ratings = ScenarioRatings
    /\ txStatus = "ok"
    /\ op = "idle"
    /\ args = NoArgs
    /\ rows = <<>>
    /\ ret = <<>>
    /\ errors = 0
    /\ queries = 0
    /\ failed = 0
    /\ raised = FALSE
    /\ faulty = FALSE
    /\ NoSession
    /\ NoWorkload

GetScenarioRecommendations ==
    /\ RecommendationsCall(BookIds \cup {MissingId}, 1..DefaultLimit,
                           {NoId} \cup BookIds \cup {MissingId}, Faults)
    /\ UNCHANGED session

NextScenario ==
    \/ GetAllBooks
    \/ GetBookRating
    \/ GetBookEmbedding
    \/ GetScenarioRecommendations
    \/ GetRatingAnalytics
    \/ Return
    \/ Reconnect

SpecScenario == InitScenario /\ [][NextScenario]_vars

----------------------------------------------------------------------------
(* Properties of get_book_recommendations *)

Recommended == op = "get_book_recommendations"

(* The fetched row a record was built from *)
RowOf(rec) == CHOOSE j \in DOMAIN rows : rows[j][1] = rec.id

(* The position of the row of item id in the store's result *)
RowIndex(id) == CHOOSE j \in DOMAIN rows : rows[j][1] = id

(* C1: every record built from a row with a distance d in [0, 2] has the
   similarity 1 - d when d < 1 and 0 when d >= 1, which lies in [0, 1];
   d = 0 gives 1. *)
C1_SimilarityBounded ==
    Recommended =>
        \A i \in DOMAIN ret :
            /\ \E j \in DOMAIN rows : rows[j][1] = ret[i].id
            /\ LET d == rows[RowOf(ret[i])][3]
                   sim == ret[i].similarity_score
               IN d \in 0..(2 * DistScale) =>
                    /\ sim = (IF d >= DistScale THEN 0 ELSE DistScale - d)
                    /\ sim \in 0..DistScale
                    /\ (d = 0 => sim = DistScale)

(* A result holding a record at distance 0 and a record at a distance
   strictly between 1 and 2 *)
C1_Witness ==
    /\ Recommended
    /\ \E i, k \in DOMAIN ret :
        /\ rows[RowOf(ret[i])][3] = 0
        /\ ret[i].similarity_score = DistScale
        /\ rows[RowOf(ret[k])][3] > DistScale
        /\ rows[RowOf(ret[k])][3] < 2 * DistScale
        /\ ret[k].similarity_score = 0

(* C2: the returned list is sorted by similarity descending, and records
   of equal similarity are in the order in which the store returned them. *)
C2_SortedStable ==
    Recommended =>
        \A i, j \in DOMAIN ret :
            i < j =>
                /\ ret[i].similarity_score >= ret[j].similarity_score
                /\ (ret[i].similarity_score = ret[j].similarity_score
                        => RowIndex(ret[i].id) < RowIndex(ret[j].id))

(* A result whose two records the store returned in the other order *)
C2_Witness ==
    /\ Recommended
    /\ Len(ret) = 2
    /\ ret[1].similarity_score > ret[2].similarity_score
    /\ RowIndex(ret[1].id) > RowIndex(ret[2].id)

(* C3: no returned record has the exclusion id. *)
C3_ExcludedAbsent ==
    Recommended => \A i \in DOMAIN ret : ret[i].id # args.exclude_book_id

(* The reference item has an embedding (its distance to itself is 0), is
   the exclusion id, and the result is not empty. *)
C3_Witness ==
    /\ Recommended
    /\ args.exclude_book_id = args.book_id
    /\ args.book_id \in BookIds
    /\ CosineDistance(books[args.book_id].embedding, EmbeddingOf(args.book_id)) = 0
    /\ ret # <<>>

(* C4: the returned list has at most limit records and no two of them
   have the same id. *)
C4_CappedDistinct ==
    Recommended =>
        /\ Len(ret) <= args.limit
        /\ \A i, j \in DOMAIN ret : ret[i].id = ret[j].id => i = j

(* More candidates pass the filter than the limit allows, and limit
   records are returned. *)
C4_Witness ==
    /\ Recommended
    /\ args.exclude_book_id # NoId
    /\ Cardinality({b \in BookIds :
            /\ books[b].embedding # Null
            /\ b # args.exclude_book_id
            /\ EmbeddingOf(args.book_id) # Null
            /\ CosineDistance(books[b].embedding, EmbeddingOf(args.book_id))
                    < 2 * DistScale}) > args.limit
    /\ Len(ret) = args.limit


(* C5: an item without ratings gets (None, 0) from get_book_rating, and
   every row the store returns for such an item to get_book_recommendations
   becomes a record with avg_rating None and num_ratings 0. *)
C5_ZeroRatingsKept ==
    /\ (op = "get_book_rating" /\ failed = 0 /\ RatingsOf(args.book_id) = <<>>)
            => ret = <<Null, 0>>
    /\ (Recommended /\ failed = 0) =>
            \A j \in DOMAIN rows :
                RatingsOf(rows[j][1]) = <<>> =>
                    \E i \in DOMAIN ret :
                        /\ ret[i].id = rows[j][1]
                        /\ ret[i].avg_rating = Null
                        /\ ret[i].num_ratings = 0

(* The same for the calls that pass an exclusion id *)
C5_ZeroRatingsKeptWhenExcluding ==
    /\ (op = "get_book_rating" /\ failed = 0 /\ RatingsOf(args.book_id) = <<>>)
            => ret = <<Null, 0>>
    /\ (Recommended /\ failed = 0 /\ args.exclude_book_id # NoId) =>
            \A j \in DOMAIN rows :
                RatingsOf(rows[j][1]) = <<>> =>
                    \E i \in DOMAIN ret :
                        /\ ret[i].id = rows[j][1]
                        /\ ret[i].avg_rating = Null
                        /\ ret[i].num_ratings = 0

(* C6: in the scenario, the recommendations for A with limit 10 excluding
   A are exactly B (similarity 1.0, average 4.2, 5 ratings) then C
   (similarity 0.0, no average, 0 ratings). *)
C6_Scenario ==
    (/\ Recommended
     /\ failed = 0
     /\ args = [book_id |-> 1, limit |-> 10, exclude_book_id |-> 1])
        => ret = <<[id |-> 2, title |-> 2, similarity_score |-> DistScale,
                    avg_rating |-> <<21, 5>>, num_ratings |-> 5],
                   [id |-> 3, title |-> 1, similarity_score |-> 0,
                    avg_rating |-> Null, num_ratings |-> 0]>>

(* The scenario's call has returned, the store having listed C before B. *)
C6_Witness ==
    /\ Recommended
    /\ failed = 0
    /\ args = [book_id |-> 1, limit |-> 10, exclude_book_id |-> 1]
    /\ Len(rows) = 2
    /\ rows[1][1] = 3
    /\ Len(ret) = 2


----------------------------------------------------------------------------
(* Properties of the other operations and of failures *)

(* C7: get_book_embedding of an id that references no book, or a book
   whose embedding is NULL, returns None, and no exception leaves it. *)
C7_NotFoundIsNone ==
    (/\ op = "get_book_embedding"
     /\ (args.book_id \notin BookIds \/ books[args.book_id].embedding = Null))
        => (ret = None /\ ~raised)

(* The call for an id that references no book has returned None without a
   report, on a store that also holds a book without an embedding. *)
C7_Witness ==
    /\ op = "get_book_embedding"
    /\ failed = 0
    /\ errors = 0
    /\ ret = None
    /\ args.book_id = MissingId
    /\ \E b \in BookIds : books[b].embedding = Null
    /\ \E b \in BookIds : books[b].embedding # Null

(* The neutral result of each operation *)
Neutral ==
    CASE op = "get_all_books" -> <<>>
      [] op = "get_book_rating" -> <<Null, 0>>
      [] op = "get_book_embedding" -> None
      [] op = "get_book_recommendations" -> <<>>
      [] op = "get_rating_analytics" -> <<<<>>, <<>>>>

(* C8: an operation whose query failed returns its neutral result, and no
   exception leaves it. *)
C8_FailureIsNeutral ==
    failed # 0 => (~raised /\ ret = Neutral)

(* The second query of get_rating_analytics failed after the first had
   fetched a trend. *)
C8_Witness ==
    /\ op = "get_rating_analytics"
    /\ failed = 2
    /\ rows[1] # <<>>
    /\ ret = <<<<>>, <<>>>>

(* C9: an operation whose query failed issues no query after the failing
   one and reports exactly one error. *)
C9_ReportedOnceNoRetry ==
    failed # 0 => (queries = failed /\ errors = 1)

(* The same for the operations other than get_book_rating *)
C9_ReportedOnceExceptRating ==
    (failed # 0 /\ op # "get_book_rating") => (queries = failed /\ errors = 1)

(* C10: every leaderboard row has at least 3 ratings, and no book with
   fewer than 3 ratings (or none) is on the leaderboard. *)
C10_TopNeedsThreeRatings ==
    (op = "get_rating_analytics" /\ failed = 0) =>
        /\ \A i \in DOMAIN ret[2] : ret[2][i][3] >= 3
        /\ \A b \in BookIds :
                Len(RatingsOf(b)) < 3 =>
                    \A i \in DOMAIN ret[2] : ret[2][i][1] # books[b].title

(* A book with two ratings of 5 (average 5.0) is left out of a leaderboard
   that is not empty. *)
C10_Witness ==
    /\ op = "get_rating_analytics"
    /\ failed = 0
    /\ ret[2] # <<>>
    /\ \E b \in BookIds :
        /\ Len(RatingsOf(b)) = 2
        /\ SqlAvg(RatingValues(RatingsOf(b))) = <<5, 1>>
        /\ \A i \in DOMAIN ret[2] : ret[2][i][1] # books[b].title


(* The exact mean of the ratings of book b, as <<sum, count>> *)
Mean(b) == <<SeqSum(RatingValues(RatingsOf(b))), Len(RatingsOf(b))>>

(* The book a leaderboard row is about (titles are distinct) *)
BookTitled(title) == CHOOSE b \in BookIds : books[b].title = title

(* Book a ranks strictly before book b: a higher mean, or the same mean
   and more ratings. *)
RanksBefore(a, b) ==
    \/ Mean(a)[1] * Mean(b)[2] > Mean(b)[1] * Mean(a)[2]
    \/ (/\ Mean(a)[1] * Mean(b)[2] = Mean(b)[1] * Mean(a)[2]
        /\ Mean(a)[2] > Mean(b)[2])

(* C11: the leaderboard is ordered by average descending, then by count
   descending; it has at most 10 rows, as many as there are books with at
   least 3 ratings up to 10, and no book left out ranks before a book
   kept. *)
C11_TopOrderedCapped ==
    (op = "get_rating_analytics" /\ failed = 0) =>
        LET top == ret[2]
            on == {BookTitled(top[i][1]) : i \in DOMAIN top}
            qualifying == {b \in BookIds : Len(RatingsOf(b)) >= 3}
        IN /\ \A i, j \in DOMAIN top :
                i < j => ~RanksBefore(BookTitled(top[j][1]), BookTitled(top[i][1]))
           /\ Len(top) <= 10
           /\ Len(top) = Min(10, Cardinality(qualifying))
           /\ Cardinality(on) = Len(top)
           /\ on \subseteq qualifying
           /\ \A b \in qualifying \ on : \A a \in on : ~RanksBefore(b, a)

(* Eleven books qualify, ten are kept, and two neighbours on the
   leaderboard have the same average and different counts. *)
C11_Witness ==
    /\ op = "get_rating_analytics"
    /\ failed = 0
    /\ Cardinality({b \in BookIds : Len(RatingsOf(b)) >= 3}) > 10
    /\ Len(ret[2]) = 10
    /\ \E i \in 1..9 : ret[2][i][2] = ret[2][i + 1][2] /\ ret[2][i][3] > ret[2][i + 1][3]


(* The ratings whose timestamp is inside the trailing 30-day window *)
InWindow == SelectSeq(ratings, LAMBDA r : r.age <= 30)

(* C12: with no rating inside the trailing 30-day window the rating trend
   is empty and no error is raised or reported; a rating older than 30 days
   contributes to no row: the rows are about the days of the window and
   their counts add up to the number of ratings inside the window. *)
C12_TrendWindow ==
    (op = "get_rating_analytics" /\ failed = 0) =>
        LET rating_trend == ret[1]
        IN /\ InWindow = <<>> => (rating_trend = <<>> /\ errors = 0 /\ ~raised)
           /\ \A i \in DOMAIN rating_trend : rating_trend[i][1] >= 0 - 30
           /\ SeqSum([i \in DOMAIN rating_trend |-> rating_trend[i][3]]) = Len(InWindow)

(* Ratings exist, all of them 31 days old, and the trend came back empty. *)
C12_Witness ==
    /\ op = "get_rating_analytics"
    /\ failed = 0
    /\ Len(ratings) >= 2
    /\ \A i \in DOMAIN ratings : ratings[i].age = 31
    /\ ret[1] = <<>>
    /\ errors = 0


(* The output holds exactly one record per fetched row. *)
OneRecordPerRow ==
    /\ Len(ret) = Len(rows)
    /\ \A j \in DOMAIN rows :
            Cardinality({i \in DOMAIN ret : ret[i].id = rows[j][1]}) = 1
    /\ (ret = <<>> => rows = <<>>)

(* C13: for every call of get_book_recommendations whose store query
   succeeds, with an exclusion id or without one, the output holds exactly
   one record per row the store returned, and is empty only if the store
   returned no row.  The code violates it on the calls without an exclusion
   id: their rows have three columns and building a record raises. *)
C13_OneRecordPerRow ==
    (Recommended /\ failed = 0) => OneRecordPerRow

(* The calls with an exclusion id satisfy it, and their rows are
   min(limit, number of candidates) many. *)
C13_OneRecordPerRowWhenExcluding ==
    (Recommended /\ failed = 0 /\ args.exclude_book_id # NoId) =>
        /\ OneRecordPerRow
        /\ Len(ret) = Min(args.limit,
                          Cardinality(Candidates(args.book_id, args.exclude_book_id)))


(* The run has issued the store operation name. *)
Called(name) == \E k \in DOMAIN calls : calls[k] = name

(* get_database_connection has reported that there is no connection. *)
ConnectionErrorShown ==
    \/ <<"st.error", "DATABASE_URL environment variable not set">> \in shown
    \/ <<"st.error", "Database connection failed">> \in shown

(* C14: when DATABASE_URL is unset or the connection attempt fails,
   get_database_connection reports the error and halts the run, and the
   run issues no store operation: a halted run has the report on its page,
   and a run with the report is halted, has issued no operation and is in
   none. *)
C14_ConnectFailureFatal ==
    /\ pc = "stopped" => ConnectionErrorShown
    /\ ConnectionErrorShown => (pc = "stopped" /\ calls = <<>> /\ op = "idle")
    /\ calls # <<>> => <<"st.success", "Connected to Aiven PostgreSQL">> \in shown

(* The connection attempt failed and the run is halted. *)
C14_Witness ==
    /\ pc = "stopped"
    /\ shown = {<<"st.error", "Database connection failed">>}
    /\ calls = <<>>

(* C15: in a run of main() the recommendation query is issued only right
   after get_book_embedding has returned an embedding for the selected
   book, and for that book; once get_book_embedding has returned none
   (not found, or failed), the run issues no recommendation query and
   shows the error. *)
C15_EmbeddingBeforeRecommendations ==
    /\ \A k \in DOMAIN calls :
            calls[k] = "get_book_recommendations" =>
                /\ k > 1
                /\ calls[k - 1] = "get_book_embedding"
                /\ book_embedding # None
    /\ op = "get_book_embedding" => args.book_id = selected_book_id
    /\ op = "get_book_recommendations" =>
            (args.book_id = selected_book_id /\ args.exclude_book_id = selected_book_id)
    /\ (Called("get_book_embedding") /\ book_embedding = None) =>
            /\ ~Called("get_book_recommendations")
            /\ pc # "get_book_recommendations"
            /\ pc # "if book_embedding" =>
                    <<"st.error", "Could not get embedding for the selected book">> \in shown

(* No embedding came back (the book has none), the error is on the page
   and the run has gone on to the statistics without recommendations. *)
C15_Witness ==
    /\ pc = "get_rating_analytics"
    /\ calls = <<"get_all_books", "get_book_rating", "get_book_embedding", "Quick Stats">>
    /\ book_embedding = None
    /\ books[selected_book_id].embedding = Null
    /\ <<"st.error", "Could not get embedding for the selected book">> \in shown
    /\ <<"st.error", "get_book_embedding">> \notin shown


(* The distance of book b from the reference book of the call *)
DistanceFromReference(b) ==
    CosineDistance(books[b].embedding, EmbeddingOf(args.book_id))

(* C16: every record get_book_recommendations returns is about a book with
   a non-null embedding at a distance strictly less than 2.0 from the
   reference; a book at distance exactly 2.0, or without an embedding, is
   in no record. *)
C16_WithinThreshold ==
    Recommended =>
        /\ \A i \in DOMAIN ret :
                /\ ret[i].id \in BookIds
                /\ books[ret[i].id].embedding # Null
                /\ DistanceFromReference(ret[i].id) # NullDist
                /\ DistanceFromReference(ret[i].id) < 2 * DistScale
        /\ \A b \in BookIds :
                (books[b].embedding = Null \/ DistanceFromReference(b) = 2 * DistScale)
                    => \A i \in DOMAIN ret : ret[i].id # b

(* One record came back with room for another, and the book left out is
   at distance exactly 2.0 and not the excluded one. *)
C16_Witness ==
    /\ Recommended
    /\ Len(ret) = 1
    /\ args.limit > 1
    /\ \E b \in BookIds :
            /\ b # args.exclude_book_id
            /\ DistanceFromReference(b) = 2 * DistScale
            /\ ret[1].id # b


(* The books the records of an output are about *)
RecordIds(out) == {out[i].id : i \in DOMAIN out}

(* C17: the store caps the rows before the ranking.  When more than limit
   candidates pass the filter the output is about limit of them, and every
   choice of limit candidates is an output the call can produce: none is
   ruled out by a closer candidate left outside. *)
C17_CapBeforeRanking ==
    (Recommended /\ failed = 0 /\ args.exclude_book_id # NoId) =>
        LET candidates == Candidates(args.book_id, args.exclude_book_id)
        IN Cardinality(candidates) > args.limit =>
            /\ RecordIds(ret) \subseteq candidates
            /\ Cardinality(RecordIds(ret)) = args.limit
            /\ \A kept \in SUBSET candidates :
                    Cardinality(kept) = args.limit =>
                        \E results \in RecommendationQuery(args.book_id, args.limit,
                                                          args.exclude_book_id) :
                            RecordIds(RecommendationsBody(results).value) = kept

(* The output holds one candidate and omits another that is strictly
   closer to the reference. *)
C17_Witness ==
    /\ Recommended
    /\ failed = 0
    /\ args.exclude_book_id # NoId
    /\ Len(ret) = args.limit
    /\ \E b \in Candidates(args.book_id, args.exclude_book_id) :
            /\ b \notin RecordIds(ret)
            /\ \E i \in DOMAIN ret :
                    DistanceFromReference(b) < DistanceFromReference(ret[i].id)


(* C18: get_book_embedding gives the same list, in the same order, for the
   text encoding "[x1,x2,...]" and for the native sequence encoding of a
   stored non-empty vector, namely the list of its numbers; a value that
   is neither text nor iterable is returned as it is. *)
C18_EncodingsNormalised ==
    (op = "get_book_embedding" /\ failed = 0 /\ rows # <<>>) =>
        LET stored == books[args.book_id].embedding
            fetched == rows[1]
        IN stored # Null =>
            /\ fetched.t \in {"str", "list"} => ret = PyList(stored)
            /\ fetched.t = "other" => ret = fetched
            /\ \A enc \in {"str", "list"} :
                    EmbeddingBody(EmbeddingQuery(args.book_id, enc)).value = PyList(stored)
            /\ ~raised
            /\ errors = 0

(* The text "[3,4]" came from the store and the list [3, 4] went out. *)
C18_Witness ==
    /\ op = "get_book_embedding"
    /\ failed = 0
    /\ rows = <<[t |-> "str", v |-> <<"[", "3", ",", "4", "]">>]>>
    /\ ret = [t |-> "list", v |-> <<3, 4>>]


(* C19: a query failure is recoverable: after an operation's query has
   failed on the connection of the run, a later operation whose own
   queries are valid returns its normal result; that is, an operation
   fails only through a query of its own.  The code violates it: the
   failed statement leaves the connection's transaction aborted, nothing
   rolls it back, and every later statement of the run is rejected. *)
C19_FailureRecoverable ==
    (op # "idle" /\ ~faulty) => (failed = 0 /\ errors = 0)


(* C20: on the same store, the pair (avg_rating, num_ratings) of every
   record get_book_recommendations returns is the pair get_book_rating
   returns for the record's id, and the record's avg_rating is None
   exactly when its num_ratings is 0. *)
C20_RatingsAgree ==
    Recommended =>
        \A i \in DOMAIN ret :
            /\ <<ret[i].avg_rating, ret[i].num_ratings>>
                    = RatingBody(RatingQuery(ret[i].id))
            /\ ret[i].avg_rating = Null <=> ret[i].num_ratings = 0

(* Two records: a book with the ratings 1 and 5 (average 3 over 2), and a
   book without ratings (None over 0). *)
C20_Witness ==
    /\ Recommended
    /\ Len(ret) = 2
    /\ \E i, j \in DOMAIN ret :
            /\ ret[i].avg_rating = <<3, 1>>
            /\ ret[i].num_ratings = 2
            /\ ret[j].avg_rating = Null
            /\ ret[j].num_ratings = 0


(* The iterations of the run whose query did what is in kinds *)
Iterations(kinds) == Cardinality({k \in DOMAIN outcomes : outcomes[k] \in kinds})

(* C21: the summary of run_workload counts as successful the iterations
   whose query executed without error and as failed those whose query was
   missing or failed to execute, and the two add up to num_iterations.
   The code violates it: run_slow_query reports a missing or failed query
   by returning (0, 0), and the loop counts every return as a success. *)
C21_CountsMatchOutcomes ==
    at = "returned" =>
        /\ summary.successful = Iterations({"ok"})
        /\ summary.failed = Iterations({"missing", "failed"})
        /\ summary.successful + summary.failed = num_iterations

(* C22: run_workload returns its summary for every num_iterations >= 0
   without raising, with avg_time 0 when no query was successful.  The
   code violates it: with num_iterations = 0 the summary log line divides
   by successful_queries = 0 before the return statement is reached. *)
C22_ReturnsWithoutRaising ==
    /\ at # "raised"
    /\ (at = "returned" /\ Iterations({"ok"}) = 0) => summary.avg_time[1] = 0

(* With at least one iteration the call returns, and with avg_time 0 when
   no query was successful. *)
C22_ReturnsWhenIterating ==
    num_iterations >= 1 =>
        /\ at # "raised"
        /\ (at = "returned" /\ Iterations({"ok"}) = 0) => summary.avg_time[1] = 0

====
